---- MODULE Spec2Model ----
(***************************************************************************)
(* Model of src/main.py (Crypto Funds MCP): five tool handlers that read   *)
(* the API credential, issue one HTTP GET against the Cryptorank API and   *)
(* turn the decoded JSON body into a text report of titled ASCII tables.   *)
(***************************************************************************)
EXTENDS Integers, Sequences, FiniteSets, TLC

\* Longest list that appears in a modelled API response.
MaxLen == 2
\* Fund ids the caller may pass are 1..MaxFundId.
MaxFundId == 2
\* Tool calls made one after the other in one run of the server.
MaxCalls == 2

(***************************************************************************)
(* Decoded JSON values (response.json()), as tagged values.                *)
(***************************************************************************)
Null == [t |-> "null", v |-> <<>>]
Str(s) == [t |-> "s", v |-> s]
List(s) == [t |-> "l", v |-> s]
Dict(f) == [t |-> "d", v |-> f]
EmptyFcn == [k \in {} |-> Null]

\* The fallback literal of every .get(key, "N/A").
NA == Str("N/A")

\* An exception raised while a Python expression is evaluated.
Raised(exc) == [t |-> "raise", v |-> exc]
IsRaised(x) == x.t = "raise"

(***************************************************************************)
(* Python semantics used by the handlers.                                  *)
(***************************************************************************)
\* dict.get(key, default): the default is used only when the key is absent;
\* a key stored with null yields None.
dict_get(d, key, default) ==
    IF d.t # "d" THEN Raised("AttributeError")
    ELSE IF key \in DOMAIN d.v THEN d.v[key]
    ELSE default

\* Variant of Falsy that tests `x is None`.
Falsy_none_only(x) == x.t = "null"

\* Truthiness: `not x` holds for None, "", [] and {}.
Falsy(x) ==
    \/ x.t = "null"
    \/ x.t = "s" /\ x.v = ""
    \/ x.t \in {"l", "d"} /\ DOMAIN x.v = {}

\* x[0]
Index0(x) ==
    IF x.t = "l" THEN (IF Len(x.v) > 0 THEN x.v[1] ELSE Raised("IndexError"))
    ELSE IF x.t = "d" THEN Raised("KeyError")
    ELSE Raised("TypeError")

\* The first raised exception of a sequence of evaluated values, if any.
FirstRaised(s) ==
    LET bad == {i \in 1..Len(s) : IsRaised(s[i])}
    IN  s[CHOOSE i \in bad : \A j \in bad : i <= j]

\* One dict literal {label: value, ...}: a row, or the exception raised
\* while one of its values was evaluated.
Cell(label, value) == [label |-> label, value |-> value]
Row(cells) ==
    LET vals == [i \in 1..Len(cells) |-> cells[i].value]
    IN  IF \E i \in 1..Len(vals) : IsRaised(vals[i]) THEN FirstRaised(vals)
        ELSE [t |-> "row", v |-> cells]

\* [F(x) for x in coll]: iterating None raises TypeError; an exception in
\* the element expression propagates.
Comprehension(coll, F(_)) ==
    IF IsRaised(coll) THEN coll
    ELSE IF coll.t # "l" THEN Raised("TypeError")
    ELSE LET rows == [i \in 1..Len(coll.v) |-> F(coll.v[i])]
         IN  IF \E i \in 1..Len(rows) : IsRaised(rows[i]) THEN FirstRaised(rows)
             ELSE [t |-> "rows", v |-> rows]

RECURSIVE JoinStrings(_)
\* ", ".join(list of str) on the strings of a list value.
JoinStrings(s) ==
    IF Len(s) = 0 THEN ""
    ELSE IF Len(s) = 1 THEN s[1].v
    ELSE s[1].v \o ", " \o JoinStrings(Tail(s))

\* ", ".join(x): x must be an iterable of str.
str_join(x) ==
    IF x.t # "l" THEN Raised("TypeError")
    ELSE IF \E i \in 1..Len(x.v) : x.v[i].t # "s" THEN Raised("TypeError")
    ELSE Str(JoinStrings(x.v))

(***************************************************************************)
(* The returned text, as a sequence of lines; a rendered table is one      *)
(* item that carries the rows handed to tabulate().                        *)
(***************************************************************************)
NoId == 0
\* "<Title>:\n"
TitleLine(title) == [k |-> "title", text |-> title, fund_id |-> NoId, rows |-> <<>>]
\* the empty line produced by "\n\n" after a table
BlankLine == [k |-> "blank", text |-> "", fund_id |-> NoId, rows |-> <<>>]
Message(text, id) == [k |-> "msg", text |-> text, fund_id |-> id, rows |-> <<>>]
\* tabulate(rows, headers="keys", tablefmt="grid", ...)
tabulate(rows) == [k |-> "table", text |-> "", fund_id |-> NoId, rows |-> rows]

(***************************************************************************)
(* Outcome of one tool call.                                               *)
(***************************************************************************)
NoMsg == [context |-> "", fund_id |-> NoId, cause |-> ""]
NoResult == [kind |-> "none", exc |-> "", msg |-> NoMsg, lines |-> <<>>]
Return(lines) == [kind |-> "return", exc |-> "", msg |-> NoMsg, lines |-> lines]
Raise(exc, msg) == [kind |-> "raise", exc |-> exc, msg |-> msg, lines |-> <<>>]

(***************************************************************************)
(* Column lists of the dict literals: <<label, key>> in source order.      *)
(***************************************************************************)
SearchColumns ==
    << <<"ID", "id">>, <<"Key", "key">>, <<"Name", "name">>, <<"Tier", "tier">>,
       <<"Type", "type">>, <<"Jurisdiction", "jurisdiction">>,
       <<"Portfolio", "portfolio">>, <<"Funding Rounds", "fundingRounds">>,
       <<"Retail ROI", "retailRoi">>, <<"Lead Investments", "leadInvestments">> >>
AllFundsColumns ==
    << <<"ID", "id">>, <<"Name", "name">>, <<"Tier", "tier">>, <<"Type", "type">> >>
BasicFields == SearchColumns
DetailFields ==
    << <<"ID", "id">>, <<"Key", "key">>, <<"Name", "name">>, <<"Tier", "tier">>,
       <<"Type", "type">>, <<"Jurisdiction", "jurisdiction">>,
       <<"Description", "description">>,
       <<"Portfolio", "portfolio">>, <<"Funding Rounds", "fundingRounds">>,
       <<"Retail ROI", "retailRoi">>, <<"Lead Investments", "leadInvestments">> >>
LinkColumns == << <<"Type", "type">>, <<"Value", "value">> >>
FocusColumns == << <<"ID", "id">>, <<"Name", "name">>, <<"Percent", "percent">> >>
InvestmentColumns ==
    << <<"ID", "id">>, <<"Symbol", "symbol">>, <<"Name", "name">>, <<"Logo", "logo">> >>
LocationColumns == << <<"Code", "code">>, <<"Count", "count">> >>
RoundColumns ==
    << <<"ID", "id">>, <<"Name", "name">>, <<"Logo", "logo">>,
       <<"Raise", "raise">>, <<"Date", "date">> >>
AvgRaiseColumns ==
    << <<"Raise From", "raiseFrom">>, <<"Raise To", "raiseTo">>,
       <<"Percent", "percent">> >>

\* {label: rec.get(key, "N/A"), ...} for one record.
Project(rec, cols) ==
    Row([i \in 1..Len(cols) |-> Cell(cols[i][1], dict_get(rec, cols[i][2], NA))])

\* Variant of ProjectAll that walks the records from the last to the first.
ProjectAll_reversed(coll, cols) ==
    Comprehension(IF coll.t = "l"
                  THEN List([i \in 1..Len(coll.v) |-> coll.v[Len(coll.v) + 1 - i]])
                  ELSE coll,
                  LAMBDA rec : Project(rec, cols))

\* [{...} for rec in coll] with the column list cols.
ProjectAll(coll, cols) == Comprehension(coll, LAMBDA rec : Project(rec, cols))

\* The "Field"/"Value" rows of the main table of one fund.
MainTable(fund, fields) ==
    LET rows == [i \in 1..Len(fields) |->
                   Row(<< Cell("Field", Str(fields[i][1])),
                          Cell("Value", dict_get(fund, fields[i][2], NA)) >>)]
    IN  IF \E i \in 1..Len(rows) : IsRaised(rows[i]) THEN FirstRaised(rows)
        ELSE [t |-> "rows", v |-> rows]

\* Variant of AppendSection without the `if rows:` test.
AppendSection_unconditional(output, title, rows) ==
    output \o <<BlankLine, TitleLine(title), tabulate(rows)>>

\* Variant of AppendSection whose separator is "\n<Title>:\n".
AppendSection_no_blank(output, title, rows) ==
    IF rows # <<>> THEN output \o <<TitleLine(title), tabulate(rows)>>
    ELSE output

\* if rows: output += "\n\n<Title>:\n" + tabulate(rows)
AppendSection(output, title, rows) ==
    IF rows # <<>> THEN output \o <<BlankLine, TitleLine(title), tabulate(rows)>>
    ELSE output

\* Variant of StageType without the `if stage.get("type")` test.
StageType_unguarded(stage) == Index0(dict_get(stage, "type", List(<<NA>>)))

\* stage.get("type", ["N/A"])[0] if stage.get("type") else "N/A"
StageType(stage) ==
    LET cond == dict_get(stage, "type", Null)
    IN  IF IsRaised(cond) THEN cond
        ELSE IF ~Falsy(cond) THEN Index0(dict_get(stage, "type", List(<<NA>>)))
        ELSE NA

\* Variant of MemberLinks that reads the member's first link only.
MemberLinks_first_only(member) ==
    LET member_name == dict_get(member, "name", NA)
        links == dict_get(member, "links", List(<<>>))
    IN  Comprehension(IF links.t = "l" /\ Len(links.v) > 1
                      THEN List(<<links.v[1]>>) ELSE links,
            LAMBDA link : Row(<< Cell("Member Name", member_name),
                                 Cell("Link Type", dict_get(link, "type", NA)),
                                 Cell("Link Value", dict_get(link, "value", NA)) >>))

\* The rows appended for one member by the inner loop over its links.
MemberLinks(member) ==
    LET member_name == dict_get(member, "name", NA)
    IN  Comprehension(dict_get(member, "links", List(<<>>)),
            LAMBDA link : Row(<< Cell("Member Name", member_name),
                                 Cell("Link Type", dict_get(link, "type", NA)),
                                 Cell("Link Value", dict_get(link, "value", NA)) >>))

RECURSIVE LinksLoop(_)
\* links_table_data after the outer loop has run over the given members.
LinksLoop(members) ==
    IF Len(members) = 0 THEN [t |-> "rows", v |-> <<>>]
    ELSE LET head == MemberLinks(members[1])
         IN  IF IsRaised(head) THEN head
             ELSE LET rest == LinksLoop(Tail(members))
                  IN  IF IsRaised(rest) THEN rest
                      ELSE [t |-> "rows", v |-> head.v \o rest.v]

\* Raise the first exception of the evaluated parts, else return the text.
Outcome(parts, lines) ==
    IF \E i \in 1..Len(parts) : IsRaised(parts[i])
    THEN Raise(FirstRaised(parts).v, NoMsg)
    ELSE Return(lines)

\* The text returned when `data` is falsy.
NoDataMessage(o, id) ==
    CASE o = "search_funds" ->
           Message("No funds data available for the specified filters.", NoId)
      [] o = "get_all_funds" -> Message("No funds data available.", NoId)
      [] o = "get_fund_basic" -> Message("No data available for fund ID {fund_id}.", id)
      [] o = "get_fund_detail" -> Message("No data available for fund ID {fund_id}.", id)
      [] o = "get_fund_team" ->
           Message("No team data available for fund ID {fund_id}.", id)

(***************************************************************************)
(* The five handlers from the decoded body to the returned text.           *)
(***************************************************************************)
search_funds_body(data) ==
    LET funds_data == dict_get(data, "data", List(<<>>))
    IN  IF Falsy(funds_data)
        THEN Return(<<NoDataMessage("search_funds", NoId)>>)
        ELSE LET table_data == ProjectAll(funds_data, SearchColumns)
             IN  Outcome(<<table_data>>, <<tabulate(table_data.v)>>)

get_all_funds_body(data) ==
    LET funds_data == dict_get(data, "data", List(<<>>))
    IN  IF Falsy(funds_data)
        THEN Return(<<NoDataMessage("get_all_funds", NoId)>>)
        ELSE LET table_data == ProjectAll(funds_data, AllFundsColumns)
             IN  Outcome(<<table_data>>, <<tabulate(table_data.v)>>)

get_fund_basic_body(data, fund_id) ==
    LET fund_data == dict_get(data, "data", List(<<>>))
    IN  IF Falsy(fund_data)
        THEN Return(<<NoDataMessage("get_fund_basic", fund_id)>>)
        ELSE LET fund == Index0(fund_data)
                 main_table_data == MainTable(fund, BasicFields)
                 focus_table_data ==
                     ProjectAll(dict_get(fund, "focusArea", List(<<>>)), FocusColumns)
                 investments_table_data ==
                     ProjectAll(dict_get(fund, "topInvestments", List(<<>>)),
                                InvestmentColumns)
                 output0 == <<TitleLine("Fund Metrics:"), tabulate(main_table_data.v)>>
                 output1 == AppendSection(output0, "Focus Areas:", focus_table_data.v)
                 output2 == AppendSection(output1, "Top Investments (Last 12 Months):",
                                          investments_table_data.v)
             IN  Outcome(<<fund, main_table_data, focus_table_data,
                           investments_table_data>>, output2)

get_fund_detail_body(data, fund_id) ==
    LET fund == dict_get(data, "data", Dict(EmptyFcn))
    IN  IF Falsy(fund)
        THEN Return(<<NoDataMessage("get_fund_detail", fund_id)>>)
        ELSE LET main_table_data == MainTable(fund, DetailFields)
                 links_table_data ==
                     ProjectAll(dict_get(fund, "links", List(<<>>)), LinkColumns)
                 focus_table_data ==
                     ProjectAll(dict_get(fund, "focusArea", List(<<>>)), FocusColumns)
                 investments_table_data ==
                     ProjectAll(dict_get(fund, "topInvestments", List(<<>>)),
                                InvestmentColumns)
                 locations_table_data ==
                     ProjectAll(dict_get(fund, "fundingLocations", List(<<>>)),
                                LocationColumns)
                 rounds_table_data ==
                     ProjectAll(dict_get(fund, "recentRounds", List(<<>>)), RoundColumns)
                 avg_raise_table_data ==
                     ProjectAll(dict_get(fund, "avgRoundsRaise", List(<<>>)),
                                AvgRaiseColumns)
                 stages_table_data ==
                     Comprehension(dict_get(fund, "investmentStages", List(<<>>)),
                         LAMBDA stage :
                             Row(<< Cell("Type", StageType(stage)),
                                    Cell("Percent", dict_get(stage, "percent", NA)) >>))
                 output0 == <<TitleLine("Comprehensive Fund Data:"),
                              tabulate(main_table_data.v)>>
                 output1 == AppendSection(output0, "Links:", links_table_data.v)
                 output2 == AppendSection(output1, "Focus Areas:", focus_table_data.v)
                 output3 == AppendSection(output2, "Top Investments (Recent):",
                                          investments_table_data.v)
                 output4 == AppendSection(output3, "Funding Locations:",
                                          locations_table_data.v)
                 output5 == AppendSection(output4, "Recent Funding Rounds:",
                                          rounds_table_data.v)
                 output6 == AppendSection(output5, "Average Rounds Raise:",
                                          avg_raise_table_data.v)
                 output7 == AppendSection(output6, "Investment Stages:",
                                          stages_table_data.v)
             IN  Outcome(<<main_table_data, links_table_data, focus_table_data,
                           investments_table_data, locations_table_data,
                           rounds_table_data, avg_raise_table_data,
                           stages_table_data>>, output7)

get_fund_team_body(data, fund_id) ==
    LET team_data == dict_get(data, "data", List(<<>>))
    IN  IF Falsy(team_data)
        THEN Return(<<NoDataMessage("get_fund_team", fund_id)>>)
        ELSE LET team_table_data ==
                     Comprehension(team_data,
                         LAMBDA member :
                             Row(<< Cell("ID", dict_get(member, "id", NA)),
                                    Cell("Name", dict_get(member, "name", NA)),
                                    Cell("Jobs",
                                         str_join(dict_get(member, "jobs", List(<<NA>>)))),
                                    Cell("Priority", dict_get(member, "priority", NA)) >>))
                 links_table_data ==
                     IF team_data.t # "l" THEN Raised("TypeError")
                     ELSE LinksLoop(team_data.v)
                 output0 == <<TitleLine("Fund Team Details:"),
                              tabulate(team_table_data.v)>>
                 output1 == AppendSection(output0, "Team Social Links:",
                                          links_table_data.v)
             IN  Outcome(<<team_table_data, links_table_data>>, output1)

\* except httpx.HTTPError as e: raise ValueError(f"Failed to fetch ...: {str(e)}")
FailureMessage(o, id, cause) ==
    CASE o = "search_funds" ->
           [context |-> "Failed to fetch funds", fund_id |-> NoId, cause |-> cause]
      [] o = "get_all_funds" ->
           [context |-> "Failed to fetch funds", fund_id |-> NoId, cause |-> cause]
      [] o = "get_fund_basic" ->
           [context |-> "Failed to fetch metrics for fund ID {fund_id}",
            fund_id |-> id, cause |-> cause]
      [] o = "get_fund_detail" ->
           [context |-> "Failed to fetch comprehensive data for fund ID {fund_id}",
            fund_id |-> id, cause |-> cause]
      [] o = "get_fund_team" ->
           [context |-> "Failed to fetch team data for fund ID {fund_id}",
            fund_id |-> id, cause |-> cause]

\* raise ValueError("CRYPTORANK_API_KEY environment variable is required ...")
ConfigMessage ==
    [context |-> "CRYPTORANK_API_KEY environment variable is required in .env file.",
     fund_id |-> NoId, cause |-> ""]

\* Variant of CredentialMissing that tests `api_key is None`.
CredentialMissing_none_only(key) == key.t = "null"

\* if not api_key
CredentialMissing(key) == Falsy(key)

\* Variant of client_get: the GET is sent again after the first attempt.
client_get_retry(n) == n + 2

\* response = await client.get(...): one GET leaves the process.
client_get(n) == n + 1

\* Variant of is_success that lets a redirect through.
is_success_below_400(status) == status < 400

\* response.raise_for_status() passes for a 2xx status only.
is_success(status) == 200 <= status /\ status <= 299

(***************************************************************************)
(* Inputs: the environment, the caller's arguments and the API's answers.  *)
(***************************************************************************)
Operations ==
    {"search_funds", "get_all_funds", "get_fund_basic", "get_fund_detail",
     "get_fund_team"}
WithFundId == {"get_fund_basic", "get_fund_detail", "get_fund_team"}
FundIds == 1..MaxFundId

\* os.getenv("CRYPTORANK_API_KEY"): unset, set to "", or set.
ApiKeys == {Null, Str(""), Str("secret")}

\* A key of a record is absent, stored as null, or stored with a value.
Absent == [t |-> "absent", v |-> <<>>]
FieldStates == {"absent", "null", "value"}
Keys(cols) == {cols[i][2] : i \in 1..Len(cols)}
RecOf(keys, st, tag) ==
    Dict([k \in {x \in keys : st[x] # "absent"} |->
            IF st[k] = "null" THEN Null ELSE Str(tag \o k)])
\* Every key in state bg except one key in state s.
Patterns(keys) ==
    {[k \in keys |-> IF k = special THEN s ELSE bg] :
        special \in keys, s \in FieldStates, bg \in FieldStates}
RichRecs(cols) == {RecOf(Keys(cols), p, "a.") : p \in Patterns(Keys(cols))}
FullRec(cols, tag) == RecOf(Keys(cols), [k \in Keys(cols) |-> "value"], tag)
PlainRecs(cols) == {FullRec(cols, "b."), FullRec(cols, "c.")}
\* Lists of at most MaxLen records: one record of rich, the others of plain.
Lists(rich, plain) ==
    UNION {{[i \in 1..n |-> IF i = p THEN r ELSE f[i]] :
               p \in 1..n, r \in rich \cup plain, f \in [1..n -> plain]} :
           n \in 0..MaxLen}
PlainLists(plain) == UNION {[1..n -> plain] : n \in 0..MaxLen}
\* d with the keys of f added, except those f marks absent.
WithKeys(d, f) ==
    LET add == {k \in DOMAIN f : f[k] # Absent}
    IN  Dict([k \in DOMAIN d.v \cup add |-> IF k \in add THEN f[k] ELSE d.v[k]])

\* A sub-collection: absent, null or a list of records.
RichSub(cols) == {Null} \cup {List(l) : l \in Lists(RichRecs(cols), PlainRecs(cols))}
SmallSub(cols) == {Absent, Null} \cup {List(l) : l \in PlainLists(PlainRecs(cols))}

\* Bodies of GET /funds and GET /funds/map.
ListBodies(cols) ==
    {Dict(EmptyFcn), Dict([data |-> Null])}
    \cup {Dict([data |-> List(l)]) : l \in Lists(RichRecs(cols), PlainRecs(cols))}

\* Bodies of GET /funds/{id}.
BasicFull == FullRec(BasicFields, "f.")
BasicFunds ==
    RichRecs(BasicFields)
    \cup {WithKeys(BasicFull, [focusArea |-> f, topInvestments |-> t]) :
             f \in SmallSub(FocusColumns), t \in SmallSub(InvestmentColumns)}
    \cup {WithKeys(BasicFull, [focusArea |-> f, topInvestments |-> t]) :
             f \in RichSub(FocusColumns),
             t \in {Absent, List(<<FullRec(InvestmentColumns, "b.")>>)}}
    \cup {WithKeys(BasicFull, [focusArea |-> f, topInvestments |-> t]) :
             f \in {Absent, List(<<FullRec(FocusColumns, "b.")>>)},
             t \in RichSub(InvestmentColumns)}
BasicBodies ==
    {Dict(EmptyFcn), Dict([data |-> Null]), Dict([data |-> List(<<>>)])}
    \cup {Dict([data |-> List(<<f>>)]) : f \in BasicFunds}
    \cup {Dict([data |-> List(<<f, BasicFull>>)]) : f \in RichRecs(BasicFields)}

\* Bodies of GET /funds/{id}/full-metadata.
StageRecs ==
    {WithKeys(Dict(EmptyFcn), [type |-> ty, percent |-> pc]) :
        ty \in {Absent, Null, List(<<>>), List(<<Str("Seed")>>),
                List(<<Str("Seed"), Str("Series A")>>)},
        pc \in {Absent, Null, Str("40")}}
StageFull == Dict([type |-> List(<<Str("Seed")>>), percent |-> Str("40")])
DetailSubs ==
    [links |-> LinkColumns, focusArea |-> FocusColumns,
     topInvestments |-> InvestmentColumns, fundingLocations |-> LocationColumns,
     recentRounds |-> RoundColumns, avgRoundsRaise |-> AvgRaiseColumns]
DetailSubNames == DOMAIN DetailSubs \cup {"investmentStages"}
TinySub(k, choice) ==
    IF choice = "absent" THEN Absent
    ELSE IF choice = "empty" THEN List(<<>>)
    ELSE IF k = "investmentStages" THEN List(<<StageFull>>)
    ELSE List(<<FullRec(DetailSubs[k], "b.")>>)
DetailFull == FullRec(DetailFields, "f.")
DetailFunds ==
    RichRecs(DetailFields)
    \cup {WithKeys(DetailFull, [k \in DetailSubNames |-> TinySub(k, c[k])]) :
             c \in [DetailSubNames -> {"absent", "empty", "one"}]}
    \cup UNION {{WithKeys(DetailFull,
                     [x \in DetailSubNames |-> IF x = k THEN v ELSE TinySub(x, bg)]) :
                    v \in RichSub(DetailSubs[k]), bg \in {"absent", "one"}} :
                k \in DOMAIN DetailSubs}
    \cup {WithKeys(DetailFull,
              [x \in DetailSubNames |->
                  IF x = "investmentStages" THEN v ELSE TinySub(x, bg)]) :
             v \in {Null} \cup {List(l) : l \in PlainLists(StageRecs)},
             bg \in {"absent", "one"}}
DetailBodies ==
    {Dict(EmptyFcn), Dict([data |-> Null])}
    \cup {Dict([data |-> f]) : f \in DetailFunds}

\* Bodies of GET /funds/{id}/team.
PlainLink(i) == Dict([type |-> Str("t" \o ToString(i)), value |-> Str("v" \o ToString(i))])
LinkVals ==
    {Absent, Null}
    \cup {List([i \in 1..n |-> PlainLink(i)]) : n \in 0..MaxLen}
    \cup {List(<<r>>) : r \in RichRecs(LinkColumns)}
JobsVals ==
    {Absent, Null, List(<<>>), List(<<Str("CEO")>>), List(<<Str("CEO"), Str("CTO")>>)}
MemberScalars == << <<"ID", "id">>, <<"Name", "name">>, <<"Priority", "priority">> >>
Member(name, jobs, links) ==
    WithKeys(Dict([id |-> Str("m.id"), priority |-> Str("m.priority")]),
             [name |-> name, jobs |-> jobs, links |-> links])
RichMembers ==
    {WithKeys(r, [jobs |-> List(<<Str("CEO")>>)]) : r \in RichRecs(MemberScalars)}
    \cup {Member(n, List(<<Str("CEO")>>), l) :
             n \in {Absent, Null, Str("alice")}, l \in LinkVals}
    \cup {Member(Str("alice"), j, Absent) : j \in JobsVals}
PlainMembers ==
    {Member(Str("bob"), List(<<Str("CTO")>>), List(<<>>)),
     Member(Str("carol"), List(<<Str("CFO")>>), List(<<PlainLink(8), PlainLink(9)>>))}
TeamBodies ==
    {Dict(EmptyFcn), Dict([data |-> Null])}
    \cup {Dict([data |-> List(l)]) : l \in Lists(RichMembers, PlainMembers)}

SearchBodies == ListBodies(SearchColumns)
AllFundsBodies == ListBodies(AllFundsColumns)

Bodies(o) ==
    CASE o = "search_funds" -> SearchBodies
      [] o = "get_all_funds" -> AllFundsBodies
      [] o = "get_fund_basic" -> BasicBodies
      [] o = "get_fund_detail" -> DetailBodies
      [] o = "get_fund_team" -> TeamBodies
      [] OTHER -> {}

\* What client.get() gives back: an exception of the transport, or a
\* response with a status code and (for 200) a JSON body.
NoResponse == [kind |-> "none", status |-> 0, cause |-> "", body |-> Dict(EmptyFcn)]
TransportFailures == {"ConnectError: connection refused", "ReadTimeout: timed out"}
ErrorStatuses == {302, 404, 500}
StatusCause(status) == "HTTPStatusError: " \o ToString(status)
Responses(o) ==
    {[kind |-> "exception", status |-> 0, cause |-> c, body |-> Dict(EmptyFcn)] :
        c \in TransportFailures}
    \cup {[kind |-> "response", status |-> st, cause |-> "", body |-> Dict(EmptyFcn)] :
             st \in ErrorStatuses}
    \cup {[kind |-> "response", status |-> 200, cause |-> "", body |-> b] :
             b \in Bodies(o)}

(***************************************************************************)
(* State: the process environment and one tool call in progress.           *)
(***************************************************************************)
VARIABLES api_key, calls, pc, op, fund_id, requests, response, result
vars == <<api_key, calls, pc, op, fund_id, requests, response, result>>

Init ==
    /\ api_key \in ApiKeys
    /\ calls = 0
    /\ pc = "idle"
    /\ op = "none"
    /\ fund_id = NoId
    /\ requests = 0
    /\ response = NoResponse
    /\ result = NoResult

\* The caller invokes a tool; every entity of the call is fresh.
Invoke(o, id) ==
    /\ pc = "idle"
    /\ calls < MaxCalls
    /\ pc' = "entered"
    /\ op' = o
    /\ fund_id' = id
    /\ requests' = 0
    /\ response' = NoResponse
    /\ result' = NoResult
    /\ UNCHANGED <<api_key, calls>>

\* api_key = os.getenv(...); if not api_key: raise ValueError(...)
CheckCredential ==
    /\ pc = "entered"
    /\ IF CredentialMissing(api_key)
       THEN /\ result' = Raise("ValueError", ConfigMessage)
            /\ pc' = "done"
       ELSE /\ result' = result
            /\ pc' = "send"
    /\ UNCHANGED <<api_key, calls, op, fund_id, requests, response>>

\* async with httpx.AsyncClient() as client: await client.get(...)
SendRequest ==
    /\ pc = "send"
    /\ requests' = client_get(requests)
    /\ pc' = "await"
    /\ UNCHANGED <<api_key, calls, op, fund_id, response, result>>

\* The awaited GET completes with an answer of the external API.
Receive ==
    /\ pc = "await"
    /\ \E r \in Responses(op) : response' = r
    /\ pc' = "received"
    /\ UNCHANGED <<api_key, calls, op, fund_id, requests, result>>

\* The transport error of the answer, if it is one: client.get raised, or
\* raise_for_status() raised for a non-2xx status.
IsHttpError(r) == r.kind = "exception" \/ ~is_success(r.status)
HttpErrorCause(r) == IF r.kind = "exception" THEN r.cause ELSE StatusCause(r.status)

\* except httpx.HTTPError as e: raise ValueError(...) from e
HandleHttpError ==
    /\ pc = "received"
    /\ IsHttpError(response)
    /\ result' = Raise("ValueError", FailureMessage(op, fund_id, HttpErrorCause(response)))
    /\ pc' = "done"
    /\ UNCHANGED <<api_key, calls, op, fund_id, requests, response>>

Decoded(o) == pc = "received" /\ op = o /\ ~IsHttpError(response)

search_funds ==
    /\ Decoded("search_funds")
    /\ result' = search_funds_body(response.body)
    /\ pc' = "done"
    /\ UNCHANGED <<api_key, calls, op, fund_id, requests, response>>

get_all_funds ==
    /\ Decoded("get_all_funds")
    /\ result' = get_all_funds_body(response.body)
    /\ pc' = "done"
    /\ UNCHANGED <<api_key, calls, op, fund_id, requests, response>>

get_fund_basic ==
    /\ Decoded("get_fund_basic")
    /\ result' = get_fund_basic_body(response.body, fund_id)
    /\ pc' = "done"
    /\ UNCHANGED <<api_key, calls, op, fund_id, requests, response>>

get_fund_detail ==
    /\ Decoded("get_fund_detail")
    /\ result' = get_fund_detail_body(response.body, fund_id)
    /\ pc' = "done"
    /\ UNCHANGED <<api_key, calls, op, fund_id, requests, response>>

get_fund_team ==
    /\ Decoded("get_fund_team")
    /\ result' = get_fund_team_body(response.body, fund_id)
    /\ pc' = "done"
    /\ UNCHANGED <<api_key, calls, op, fund_id, requests, response>>

\* The call has returned or raised; the next call starts from scratch.
Finish ==
    /\ pc = "done"
    /\ pc' = "idle"
    /\ op' = "none"
    /\ fund_id' = NoId
    /\ requests' = 0
    /\ response' = NoResponse
    /\ result' = NoResult
    /\ calls' = calls + 1
    /\ UNCHANGED api_key

Next ==
    \/ \E o \in Operations \ WithFundId : Invoke(o, NoId)
    \/ \E o \in WithFundId, id \in FundIds : Invoke(o, id)
    \/ CheckCredential
    \/ SendRequest
    \/ Receive
    \/ HandleHttpError
    \/ search_funds
    \/ get_all_funds
    \/ get_fund_basic
    \/ get_fund_detail
    \/ get_fund_team
    \/ Finish

Spec == Init /\ [][Next]_vars

TypeOK ==
    /\ api_key \in ApiKeys
    /\ calls \in 0..MaxCalls
    /\ pc \in {"idle", "entered", "send", "await", "received", "done"}
    /\ op \in Operations \cup {"none"}
    /\ fund_id \in FundIds \cup {NoId}
    /\ requests \in 0..1
    /\ result.kind \in {"none", "return", "raise"}

(***************************************************************************)
(* What the properties read off a state: the input of the call and the     *)
(* sections each operation declares.                                       *)
(***************************************************************************)
Returned == pc = "done" /\ result.kind = "return"
Answered2xx ==
    pc = "done" /\ response.kind = "response" /\ response.status = 200
CredentialSet == api_key.t = "s" /\ api_key.v # ""

Field(d, k) == IF d.t = "d" /\ k \in DOMAIN d.v THEN d.v[k] ELSE Absent
ListLen(x) == IF x.t = "l" THEN Len(x.v) ELSE 0
Data == Field(response.body, "data")
DataEmpty ==
    \/ Data.t \in {"absent", "null"}
    \/ Data.t \in {"l", "d"} /\ DOMAIN Data.v = {}
\* The fund record the report of get_fund_basic / get_fund_detail is about.
TheFund ==
    IF op = "get_fund_basic" /\ ListLen(Data) > 0 THEN Data.v[1]
    ELSE IF op = "get_fund_detail" /\ ~DataEmpty THEN Data
    ELSE Absent

RECURSIVE LinkCount(_, _)
\* Number of links declared by the first n members.
LinkCount(members, n) ==
    IF n = 0 THEN 0
    ELSE LinkCount(members, n - 1) + ListLen(Field(members[n], "links"))

\* The titled sections of each report, in the order the handler emits them.
Sections(o) ==
    CASE o = "get_fund_basic" ->
           << [title |-> "Fund Metrics:", key |-> "*main"],
              [title |-> "Focus Areas:", key |-> "focusArea"],
              [title |-> "Top Investments (Last 12 Months):", key |-> "topInvestments"] >>
      [] o = "get_fund_detail" ->
           << [title |-> "Comprehensive Fund Data:", key |-> "*main"],
              [title |-> "Links:", key |-> "links"],
              [title |-> "Focus Areas:", key |-> "focusArea"],
              [title |-> "Top Investments (Recent):", key |-> "topInvestments"],
              [title |-> "Funding Locations:", key |-> "fundingLocations"],
              [title |-> "Recent Funding Rounds:", key |-> "recentRounds"],
              [title |-> "Average Rounds Raise:", key |-> "avgRoundsRaise"],
              [title |-> "Investment Stages:", key |-> "investmentStages"] >>
      [] o = "get_fund_team" ->
           << [title |-> "Fund Team Details:", key |-> "*team"],
              [title |-> "Team Social Links:", key |-> "*links"] >>
      [] OTHER -> <<>>

\* Number of input rows of a section of the current call.
RowCount(sec) ==
    IF sec.key = "*main" THEN (IF TheFund.t = "d" THEN 1 ELSE 0)
    ELSE IF sec.key = "*team" THEN ListLen(Data)
    ELSE IF sec.key = "*links" THEN LinkCount(Data.v, ListLen(Data))
    ELSE ListLen(Field(TheFund, sec.key))

\* Position of the title line of a section in the returned text, 0 if none.
TitleAt(lines, title) ==
    IF \E i \in 1..Len(lines) : lines[i].k = "title" /\ lines[i].text = title
    THEN CHOOSE i \in 1..Len(lines) : lines[i].k = "title" /\ lines[i].text = title
    ELSE 0
\* The section's title line is in the text with a table right below it.
SectionShown(lines, title) ==
    LET i == TitleAt(lines, title)
    IN  i > 0 /\ i < Len(lines) /\ lines[i + 1].k = "table"
TableOf(lines, title) == lines[TitleAt(lines, title) + 1]

(***************************************************************************)
(* C1: in every returned text a section's title line and table are there   *)
(* if and only if the section has at least one input row; a title line is  *)
(* always directly above a table with at least one row; the single table   *)
(* of search_funds and get_all_funds, which has no title, is there if and  *)
(* only if the response lists at least one fund.                           *)
(***************************************************************************)
C1_SectionIffRows ==
    Returned =>
        LET lines == result.lines
        IN  /\ \A i \in 1..Len(lines) :
                 /\ lines[i].k = "title" =>
                       i < Len(lines) /\ lines[i + 1].k = "table"
                 /\ lines[i].k = "table" => Len(lines[i].rows) > 0
            /\ \A j \in 1..Len(Sections(op)) :
                 SectionShown(lines, Sections(op)[j].title)
                     <=> RowCount(Sections(op)[j]) > 0
            /\ op \in {"search_funds", "get_all_funds"} =>
                 /\ (\E i \in 1..Len(lines) : lines[i].k = "table")
                        <=> ListLen(Data) > 0
                 /\ \A i \in 1..Len(lines) : lines[i].k # "title"

\* get_fund_basic returned a report for a fund with focusArea: [] and some
\* top investments: no "Focus Areas:" title, but the other two sections.
C1_Witness ==
    /\ Returned
    /\ op = "get_fund_basic"
    /\ Field(TheFund, "focusArea") = List(<<>>)
    /\ ListLen(Field(TheFund, "topInvestments")) > 0
    /\ TitleAt(result.lines, "Focus Areas:") = 0
    /\ SectionShown(result.lines, "Fund Metrics:")
    /\ SectionShown(result.lines, "Top Investments (Last 12 Months):")

(***************************************************************************)
(* C2: while the credential is unset or empty no GET is ever issued, and   *)
(* the call ends by raising the configuration error; a GET is only issued  *)
(* in a call whose credential is set.                                      *)
(***************************************************************************)
C2_NoRequestWithoutCredential ==
    /\ ~CredentialSet =>
          /\ requests = 0
          /\ pc \in {"idle", "entered", "done"}
          /\ pc = "done" => result = Raise("ValueError", ConfigMessage)
    /\ requests > 0 => CredentialSet

\* A call made with CRYPTORANK_API_KEY="" has ended in the configuration
\* error without a request.
C2_Witness ==
    /\ pc = "done"
    /\ api_key = Str("")
    /\ op = "get_fund_team"
    /\ result.kind = "raise"
    /\ result.msg = ConfigMessage
    /\ requests = 0

(***************************************************************************)
(* C3: a call whose GET raised a transport error or came back with a       *)
(* non-2xx status ends by raising an error whose message holds the         *)
(* transport error's message, a context and, for get_fund_basic,           *)
(* get_fund_detail and get_fund_team, the fund id; it returns no text.     *)
(***************************************************************************)
UpstreamFailed ==
    \/ response.kind = "exception"
    \/ response.kind = "response" /\ response.status \in ErrorStatuses
UpstreamCause ==
    IF response.kind = "exception" THEN response.cause ELSE StatusCause(response.status)

C4_ExactlyOneRequest ==
    /\ requests <= 1
    /\ pc \in {"await", "received"} => requests = 1
    /\ (pc = "done" /\ CredentialSet) => requests = 1

\* A call ended in an upstream failure after exactly one GET.
C4_Witness ==
    /\ pc = "done"
    /\ UpstreamFailed
    /\ result.kind = "raise"
    /\ requests = 1

(***************************************************************************)
(* C5 as stated: a 2xx response whose `data` is missing or empty makes     *)
(* the call return one no-data message, with the fund id for               *)
(* get_fund_basic, get_fund_detail and get_fund_team, no table, no title,  *)
(* and a text that no other operation returns.                             *)
(***************************************************************************)
NoDataReturned ==
    /\ result.kind = "return"
    /\ Len(result.lines) = 1
    /\ result.lines[1].k = "msg"
    /\ result.lines[1].text # ""
    /\ op \in WithFundId => result.lines[1].fund_id = fund_id
    /\ op \notin WithFundId => result.lines[1].fund_id = NoId

C5_NoDataDistinctPerOperation ==
    (Answered2xx /\ DataEmpty) =>
        /\ NoDataReturned
        /\ \A o \in Operations \ {op} :
              result.lines[1].text # NoDataMessage(o, fund_id).text

(***************************************************************************)
(* C5 amended: as above, but the text is distinct per operation except     *)
(* that get_fund_basic and get_fund_detail return the same text.           *)
(***************************************************************************)
C5_NoDataMessage ==
    (Answered2xx /\ DataEmpty) =>
        /\ NoDataReturned
        /\ \A o \in Operations \ {op} :
              {o, op} # {"get_fund_basic", "get_fund_detail"} =>
                  result.lines[1].text # NoDataMessage(o, fund_id).text

\* get_fund_detail got `data: {}` and returned its no-data message.
C5_Witness ==
    /\ Answered2xx
    /\ op = "get_fund_detail"
    /\ Data = Dict(EmptyFcn)
    /\ result.kind = "return"
    /\ result.lines[1].k = "msg"
    /\ result.lines[1].fund_id = fund_id

(***************************************************************************)
(* C6 as stated: every cell of every table of a returned report is "N/A"   *)
(* when the record's key is absent, its value is null or the path cannot   *)
(* be traversed, and the record's value otherwise.                         *)
(***************************************************************************)
ExpectedCell(rec, key) ==
    LET x == Field(rec, key)
    IN  IF x.t \in {"absent", "null"} THEN NA ELSE x
ExpectedStageType(stage) ==
    LET ty == Field(stage, "type")
    IN  IF ty.t = "l" /\ Len(ty.v) > 0 THEN ty.v[1] ELSE NA
RowsMatch(rows, recs, cols) ==
    /\ Len(rows) = Len(recs)
    /\ \A i \in 1..Len(rows) : \A j \in 1..Len(cols) :
          rows[i].v[j].value = ExpectedCell(recs[i], cols[j][2])
MainMatches(rows, fund, fields) ==
    /\ Len(rows) = Len(fields)
    /\ \A i \in 1..Len(rows) : rows[i].v[2].value = ExpectedCell(fund, fields[i][2])

C6_CellIsValueOrFallback ==
    (Returned /\ ~DataEmpty) =>
        LET lines == result.lines
        IN  /\ op = "search_funds" => RowsMatch(lines[1].rows, Data.v, SearchColumns)
            /\ op = "get_all_funds" => RowsMatch(lines[1].rows, Data.v, AllFundsColumns)
            /\ op = "get_fund_basic" =>
                  MainMatches(TableOf(lines, "Fund Metrics:").rows, TheFund, BasicFields)
            /\ op = "get_fund_detail" =>
                  MainMatches(TableOf(lines, "Comprehensive Fund Data:").rows,
                              TheFund, DetailFields)
            /\ \A j \in 1..Len(Sections(op)) :
                  LET sec == Sections(op)[j]
                  IN  (sec.key \in DOMAIN DetailSubs /\ RowCount(sec) > 0) =>
                          RowsMatch(TableOf(lines, sec.title).rows,
                                    Field(TheFund, sec.key).v, DetailSubs[sec.key])
            /\ (op = "get_fund_detail"
                    /\ ListLen(Field(TheFund, "investmentStages")) > 0) =>
                  LET rows == TableOf(lines, "Investment Stages:").rows
                      stages == Field(TheFund, "investmentStages").v
                  IN  \A i \in 1..Len(rows) :
                          /\ rows[i].v[1].value = ExpectedStageType(stages[i])
                          /\ rows[i].v[2].value = ExpectedCell(stages[i], "percent")
            /\ op = "get_fund_team" =>
                  LET rows == TableOf(lines, "Fund Team Details:").rows
                  IN  \A i \in 1..Len(rows) :
                          /\ rows[i].v[1].value = ExpectedCell(Data.v[i], "id")
                          /\ rows[i].v[2].value = ExpectedCell(Data.v[i], "name")
                          /\ Field(Data.v[i], "jobs").t \in {"absent", "null"} =>
                                 rows[i].v[3].value = NA
                          /\ rows[i].v[4].value = ExpectedCell(Data.v[i], "priority")

(***************************************************************************)
(* C7 as stated: once a 2xx response has been decoded the call ends by     *)
(* returning a string, whatever fields or sub-collections are missing or   *)
(* null.                                                                   *)
(***************************************************************************)
C7_PipelineNeverFails ==
    Answered2xx => result.kind = "return"

(***************************************************************************)
(* C8: in a report of get_fund_team the "Team Social Links" table has one  *)
(* row per (member, link) pair, in member order then link order, each      *)
(* tagged with the name of the member that declares the link; with no      *)
(* link at all the section is left out.                                    *)
(***************************************************************************)
C8_LinksFlattened ==
    (Returned /\ op = "get_fund_team" /\ ~DataEmpty) =>
        LET members == Data.v
            total == LinkCount(members, Len(members))
            lines == result.lines
        IN  /\ total = 0 => TitleAt(lines, "Team Social Links:") = 0
            /\ total > 0 =>
                  /\ SectionShown(lines, "Team Social Links:")
                  /\ LET rows == TableOf(lines, "Team Social Links:").rows
                     IN  /\ Len(rows) = total
                         /\ \A m \in 1..Len(members) :
                              \A j \in 1..ListLen(Field(members[m], "links")) :
                                 LET r == rows[LinkCount(members, m - 1) + j].v
                                     link == Field(members[m], "links").v[j]
                                 IN  /\ r[1].label = "Member Name"
                                     /\ r[1].value =
                                          (IF "name" \in DOMAIN members[m].v
                                           THEN members[m].v["name"] ELSE NA)
                                     /\ r[2].value =
                                          (IF "type" \in DOMAIN link.v
                                           THEN link.v["type"] ELSE NA)
                                     /\ r[3].value =
                                          (IF "value" \in DOMAIN link.v
                                           THEN link.v["value"] ELSE NA)

\* Two members, the first with 2 links and the second with none: exactly
\* two rows, both tagged with the first member's name.
C8_Witness ==
    /\ Returned
    /\ op = "get_fund_team"
    /\ ListLen(Data) = 2
    /\ ListLen(Field(Data.v[1], "links")) = 2
    /\ Field(Data.v[2], "links") = List(<<>>)
    /\ SectionShown(result.lines, "Team Social Links:")
    /\ LET rows == TableOf(result.lines, "Team Social Links:").rows
       IN  /\ Len(rows) = 2
           /\ rows[1].v[1].value = Str("alice")
           /\ rows[2].v[1].value = Str("alice")
           /\ rows[1].v[2].value # rows[2].v[2].value

(***************************************************************************)
(* C9: in a report of get_fund_detail every "Investment Stages" row shows  *)
(* as "Type" the first element of the stage's `type` list, and "N/A" when  *)
(* the list is empty or absent; the call does not raise because of an      *)
(* empty or absent `type`.                                                 *)
(***************************************************************************)
C9_StageTypeFirstOrFallback ==
    (Answered2xx /\ op = "get_fund_detail" /\ ~DataEmpty) =>
        /\ (Returned /\ ListLen(Field(TheFund, "investmentStages")) > 0) =>
              LET rows == TableOf(result.lines, "Investment Stages:").rows
                  stages == Field(TheFund, "investmentStages").v
              IN  /\ Len(rows) = Len(stages)
                  /\ \A i \in 1..Len(rows) :
                        /\ rows[i].v[1].label = "Type"
                        /\ rows[i].v[1].value = ExpectedStageType(stages[i])
        /\ (\A k \in DetailSubNames : Field(TheFund, k).t \in {"absent", "l"}) =>
              Returned

\* A report with a stage whose `type` is [] shows "N/A" for it.
C9_Witness ==
    /\ Returned
    /\ op = "get_fund_detail"
    /\ ListLen(Field(TheFund, "investmentStages")) > 0
    /\ Field(Field(TheFund, "investmentStages").v[1], "type") = List(<<>>)
    /\ TableOf(result.lines, "Investment Stages:").rows[1].v[1].value = NA

(***************************************************************************)
(* C10: a report of get_fund_basic, get_fund_detail or get_fund_team is    *)
(* the operation's sections that have rows, in the declared order: the     *)
(* first as its title line and table with nothing before it, every later   *)
(* one as a blank line, its title line and its table.                      *)
(***************************************************************************)
HasRows(sec) == RowCount(sec) > 0

C10_SectionOrderAndSeparators ==
    (Returned /\ op \in WithFundId /\ ~DataEmpty) =>
        LET surviving == SelectSeq(Sections(op), HasRows)
            lines == result.lines
        IN  /\ Len(surviving) >= 1
            /\ Len(lines) = 3 * Len(surviving) - 1
            /\ lines[1] = TitleLine(surviving[1].title)
            /\ lines[2].k = "table"
            /\ \A j \in 2..Len(surviving) :
                  /\ lines[3 * j - 3] = BlankLine
                  /\ lines[3 * j - 2] = TitleLine(surviving[j].title)
                  /\ lines[3 * j - 1].k = "table"

\* A detail report without links but with focus areas and stages: the
\* later sections follow the main one, each after a blank line.
C10_Witness ==
    /\ Returned
    /\ op = "get_fund_detail"
    /\ ~DataEmpty
    /\ RowCount(Sections(op)[2]) = 0
    /\ RowCount(Sections(op)[3]) > 0
    /\ RowCount(Sections(op)[8]) > 0
    /\ result.lines[3] = BlankLine
    /\ result.lines[4] = TitleLine("Focus Areas:")

(***************************************************************************)
(* C11: in every returned report each list-shaped table (the table of      *)
(* search_funds and get_all_funds, every sub-collection table of           *)
(* get_fund_basic and get_fund_detail, the roster of get_fund_team) has    *)
(* exactly one row per input record, and row i is built from record i of   *)
(* the response: nothing is re-sorted, dropped or duplicated.              *)
(***************************************************************************)
StoredOrNA(rec, key) == IF key \in DOMAIN rec.v THEN rec.v[key] ELSE NA
RowFrom(row, rec, cols) ==
    /\ Len(row.v) = Len(cols)
    /\ \A j \in 1..Len(cols) :
          /\ row.v[j].label = cols[j][1]
          /\ row.v[j].value = StoredOrNA(rec, cols[j][2])
RowsInInputOrder(rows, recs, cols) ==
    /\ Len(rows) = Len(recs)
    /\ \A i \in 1..Len(recs) : RowFrom(rows[i], recs[i], cols)

C11_RowsInResponseOrder ==
    (Returned /\ ~DataEmpty) =>
        LET lines == result.lines
        IN  /\ op = "search_funds" =>
                  RowsInInputOrder(lines[1].rows, Data.v, SearchColumns)
            /\ op = "get_all_funds" =>
                  RowsInInputOrder(lines[1].rows, Data.v, AllFundsColumns)
            /\ \A j \in 1..Len(Sections(op)) :
                  LET sec == Sections(op)[j]
                  IN  (sec.key \in DOMAIN DetailSubs /\ RowCount(sec) > 0) =>
                          RowsInInputOrder(TableOf(lines, sec.title).rows,
                                           Field(TheFund, sec.key).v,
                                           DetailSubs[sec.key])
            /\ (op = "get_fund_detail"
                    /\ ListLen(Field(TheFund, "investmentStages")) > 0) =>
                  LET rows == TableOf(lines, "Investment Stages:").rows
                      stages == Field(TheFund, "investmentStages").v
                  IN  /\ Len(rows) = Len(stages)
                      /\ \A i \in 1..Len(stages) :
                            /\ rows[i].v[1].value = ExpectedStageType(stages[i])
                            /\ rows[i].v[2].value = StoredOrNA(stages[i], "percent")
            /\ op = "get_fund_team" =>
                  LET rows == TableOf(lines, "Fund Team Details:").rows
                  IN  /\ Len(rows) = Len(Data.v)
                      /\ \A i \in 1..Len(Data.v) :
                            /\ rows[i].v[1].value = StoredOrNA(Data.v[i], "id")
                            /\ rows[i].v[2].value = StoredOrNA(Data.v[i], "name")
                            /\ rows[i].v[4].value = StoredOrNA(Data.v[i], "priority")

\* search_funds returned a table for two different funds: two rows, the
\* first from the first fund of the response and the second from the second.
C11_Witness ==
    /\ Returned
    /\ op = "search_funds"
    /\ ListLen(Data) = 2
    /\ Data.v[1] # Data.v[2]
    /\ Len(result.lines[1].rows) = 2
    /\ result.lines[1].rows[1] # result.lines[1].rows[2]
    /\ RowFrom(result.lines[1].rows[1], Data.v[1], SearchColumns)
    /\ RowFrom(result.lines[1].rows[2], Data.v[2], SearchColumns)

====
